---------------------------- MODULE Spec2Model ----------------------------
(***************************************************************************)
(* A model of WorldSeedr (src/Source/WorldSeedr.ts): the recursive,        *)
(* schema-driven layout generator.                                         *)
(*                                                                         *)
(* JavaScript objects are records; an absent property is a key missing     *)
(* from the record's DOMAIN.  The value undefined is the record Undefined. *)
(* The injected random source is a stream of raw draws r, each standing    *)
(* for the number r / RandDen of [0,1).                                    *)
(***************************************************************************)
EXTENDS Integers, Sequences, FiniteSets, TLC

VARIABLES
    generatedCommands,  \* this.generatedCommands
    delivered,          \* what the last call handed to onPlacement (Undefined: no call)
    lastOp,             \* the public method that ran last
    result,             \* what the last call returned or raised (Undefined: nothing)
    argumentObjects,    \* the arguments objects of the possibilities, by id
    args,               \* the inputs of the utility or loop under check
    ret,                \* the value a utility returned
    pc,                 \* control position of the utility or loop under check
    position,           \* the cursor of the Repeat loop under check
    children,           \* the children the Repeat loop has placed
    idx                 \* the Repeat loop's index i

vars == <<generatedCommands, delivered, lastOp, result, argumentObjects,
          args, ret, pc, position, children, idx>>

(***************************************************************************)
(* Bounds of the model.                                                    *)
(***************************************************************************)
RandDen == 100          \* the random source yields r / RandDen, r \in 0 .. RandDen-1
MaxChoices == 3         \* longest list handed to chooseAmong
MaxSpacingEdge == 5     \* largest min / max of a spacing object
MaxUnits == 3           \* largest units of a spacing object
MaxExtremeChildren == 2 \* longest child list handed to getPositionExtremes
MaxCommands == 2        \* generateFull is not started with more commands than this
MaxBox == 3             \* largest edge of a box handed to a mode strategy
MaxRepeatChoices == 2   \* longest child list handed to generateChildrenRepeat
MaxCertainChoices == 3  \* longest child list handed to generateChildrenCertain
MaxSpacing == 2         \* largest fixed spacing handed to a mode strategy
MaxLimit == 2           \* largest limit of a Random schema under check
MaxIterations == 6      \* placements after which a mode's loop counts as never returning

(***************************************************************************)
(* JavaScript values.                                                      *)
(***************************************************************************)
Undefined == [undefined |-> TRUE]

Has(obj, key) == key \in DOMAIN obj

\* var value = ...; Body(value): a local variable, evaluated once.
With(value, Body(_)) == Body(value)

RandomDraws == 0 .. (RandDen - 1)

\* The random source as a stream: the next draw, and the stream after it.
Draw(rs) == Head(rs)

Advance(rs) == Tail(rs) \o <<Head(rs)>>

(***************************************************************************)
(* Randomization utilities.                                                *)
(***************************************************************************)
\* Math.floor(this.random() * 100) + 1
randomPercentage(r) == ((r * 100) \div RandDen) + 1

\* randomBetween on the rationals minN/den and maxN/den: the numerator, over
\* den, of Math.floor(random * (1 + max - min)) + min.
randomBetweenQ(r, minN, maxN, den) ==
    ((r * (den + maxN - minN)) \div (RandDen * den)) * den + minN

randomBetween(r, min, max) == randomBetweenQ(r, min, max, 1)

\* A loop that wants the running sum strictly above the draw.
RECURSIVE chooseAmongLoopStrict(_, _, _, _)
chooseAmongLoopStrict(choices, choice, sum, i) ==
    IF i > Len(choices) THEN Undefined
    ELSE LET sumNew == sum + choices[i].percent
         IN  IF sumNew > choice THEN choices[i]
             ELSE chooseAmongLoopStrict(choices, choice, sumNew, i + 1)

RECURSIVE chooseAmongLoop(_, _, _, _)
chooseAmongLoop(choices, choice, sum, i) ==
    IF i > Len(choices) THEN Undefined
    ELSE LET sumNew == sum + choices[i].percent
         IN  IF sumNew >= choice THEN choices[i]
             ELSE chooseAmongLoop(choices, choice, sumNew, i + 1)

\* chooseAmong with the raw draw r that this.random() would yield (the draw is
\* taken only when the list has two or more items).
chooseAmong(choices, r) ==
    IF Len(choices) = 0 THEN Undefined
    ELSE IF Len(choices) = 1 THEN choices[1]
    ELSE chooseAmongLoop(choices, randomPercentage(r), 0, 1)

\* The random stream after chooseAmong(choices, Draw(rs)).
chooseAmongRest(choices, rs) ==
    IF Len(choices) <= 1 THEN rs ELSE Advance(rs)

(***************************************************************************)
(* Spacing.  A spacing value carries its constructor as kind: "Number"     *)
(* (value), "Array" of two numbers (min, max), "Choices" (an Array of      *)
(* {percent, value}), "Object" (min, max and optionally units), or is      *)
(* Undefined.                                                              *)
(***************************************************************************)
spacingUnits(spacing) ==
    IF Has(spacing, "units") /\ spacing.units # 0 THEN spacing.units ELSE 1

\* randomBetween(min / units, max / units) * units
parseSpacingObject(spacing, r) ==
    IF spacing.kind = "Number" THEN spacing.value
    ELSE LET units == spacingUnits(spacing)
         IN  (randomBetweenQ(r, spacing.min, spacing.max, units) * units) \div units

\* [status, value, rs]: the number parseSpacing returns (or the TypeError it
\* raises) and the random stream it leaves.
parseSpacing(spacing, rs) ==
    IF spacing = Undefined \/ (spacing.kind = "Number" /\ spacing.value = 0)
    THEN [status |-> "ok", value |-> 0, rs |-> rs]
    ELSE CASE spacing.kind = "Array" ->
                [status |-> "ok",
                 value |-> randomBetween(Draw(rs), spacing.min, spacing.max),
                 rs |-> Advance(rs)]
           [] spacing.kind = "Choices" ->
                With(chooseAmong(spacing.choices, Draw(rs)), LAMBDA chosen :
                With(chooseAmongRest(spacing.choices, rs), LAMBDA rest :
                    IF chosen = Undefined
                    THEN [status |-> "TypeError", value |-> 0, rs |-> rest]
                    ELSE IF chosen.value.kind = "Number"
                    THEN [status |-> "ok", value |-> chosen.value.value, rs |-> rest]
                    ELSE [status |-> "ok",
                          value |-> parseSpacingObject(chosen.value, Draw(rest)),
                          rs |-> Advance(rest)]))
           [] spacing.kind = "Object" ->
                [status |-> "ok",
                 value |-> parseSpacingObject(spacing, Draw(rs)),
                 rs |-> Advance(rs)]
           [] OTHER ->
                [status |-> "ok", value |-> spacing.value, rs |-> rs]

(***************************************************************************)
(* Position manipulation utilities.                                        *)
(***************************************************************************)
Max(a, b) == IF a >= b THEN a ELSE b

Min(a, b) == IF a <= b THEN a ELSE b

\* A child with no keys at all: Object.keys(child).length = 0.
EmptyChild == [empty |-> TRUE]

\* A loop that keeps the first child's bottom and left.
RECURSIVE getPositionExtremesLoopUpper(_, _, _)
getPositionExtremesLoopUpper(childList, pos, i) ==
    IF i > Len(childList) THEN pos
    ELSE IF childList[i] = EmptyChild THEN pos
    ELSE LET child == childList[i]
         IN  getPositionExtremesLoopUpper(childList,
                [pos EXCEPT !.top = Max(pos.top, child.top),
                            !.right = Max(pos.right, child.right)],
                i + 1)

RECURSIVE getPositionExtremesLoop(_, _, _)
getPositionExtremesLoop(childList, pos, i) ==
    IF i > Len(childList) THEN pos
    ELSE IF childList[i] = EmptyChild THEN pos
    ELSE LET child == childList[i]
         IN  getPositionExtremesLoop(childList,
                [pos EXCEPT !.top = Max(pos.top, child.top),
                            !.right = Max(pos.right, child.right),
                            !.bottom = Min(pos.bottom, child.bottom),
                            !.left = Min(pos.left, child.left)],
                i + 1)

\* An Array of children as getPositionExtremes receives it: [list |-> the
\* sequence], or Undefined when the mode strategy returned nothing.
ChildArray(list) == [list |-> list]

getPositionExtremes(childArray) ==
    IF childArray = Undefined THEN Undefined
    ELSE IF Len(childArray.list) = 0 THEN Undefined
    ELSE LET childList == childArray.list
             child == childList[1]
             pos == [top |-> child.top, right |-> child.right,
                     bottom |-> child.bottom, left |-> child.left,
                     children |-> childList]
         IN  IF Len(childList) = 1 THEN pos
             ELSE getPositionExtremesLoop(childList, pos, 2)

(***************************************************************************)
(* Objects.  objectCopy is a shallow copy: the copy has the original's own *)
(* properties and is a value of its own, so that changing it leaves the    *)
(* original alone.                                                         *)
(***************************************************************************)
objectCopy(original) == [i \in DOMAIN original |-> original[i]]

objectMerge(primary, secondary) ==
    LET output == objectCopy(primary)
    IN  [i \in DOMAIN output \cup DOMAIN secondary |->
            IF i \in DOMAIN output THEN output[i] ELSE secondary[i]]

\* obj[key] = value
ObjectSet(obj, key, value) ==
    [i \in DOMAIN obj \cup {key} |-> IF i = key THEN value ELSE obj[i]]

EmptyObject == [i \in {} |-> Undefined]

\* A number held in an arguments object.
Num(n) == [num |-> n]

(***************************************************************************)
(* Directions.                                                             *)
(***************************************************************************)
directionNames == {"top", "right", "bottom", "left"}

\* contents.direction absent and no default given: direction is undefined.
NoDirection == "undefined"

directionOpposites ==
    [top |-> "bottom", right |-> "left", bottom |-> "top", left |-> "right"]

directionSizing ==
    [top |-> "height", right |-> "width", bottom |-> "height", left |-> "width"]

positionIsNotEmpty(pos, direction) ==
    IF direction = "right" \/ direction = "left"
    THEN pos.left < pos.right
    ELSE pos.top > pos.bottom

doesChoiceFit(choice, width, height) ==
    choice.width <= width /\ choice.height <= height

choiceFitsPosition(choice, pos) ==
    doesChoiceFit(choice, pos.right - pos.left, pos.top - pos.bottom)

\* A shrink that forgets the spacing.
shrinkPositionByChildOnly(pos, child, direction, spacing, w) ==
    IF direction \notin directionNames
    THEN [status |-> "ok", position |-> pos, w |-> w]
    ELSE [status |-> "ok",
          position |->
             CASE direction = "top" -> [pos EXCEPT !.bottom = child.top]
               [] direction = "right" -> [pos EXCEPT !.left = child.right]
               [] direction = "bottom" -> [pos EXCEPT !.top = child.bottom]
               [] direction = "left" -> [pos EXCEPT !.right = child.left],
          w |-> w]

\* [status, position, w]: the cursor after the shrink (parseSpacing may draw,
\* or raise a TypeError).
shrinkPositionByChild(pos, child, direction, spacing, w) ==
    IF direction \notin directionNames
    THEN [status |-> "ok", position |-> pos, w |-> w]
    ELSE With(parseSpacing(spacing, w.rs), LAMBDA space :
            [status |-> space.status,
             position |->
                IF space.status # "ok" THEN pos
                ELSE CASE direction = "top" ->
                            [pos EXCEPT !.bottom = child.top + space.value]
                       [] direction = "right" ->
                            [pos EXCEPT !.left = child.right + space.value]
                       [] direction = "bottom" ->
                            [pos EXCEPT !.top = child.bottom - space.value]
                       [] direction = "left" ->
                            [pos EXCEPT !.right = child.left - space.value],
             w |-> [w EXCEPT !.rs = space.rs]])

\* A move that shifts only the trailing edge.
movePositionBySpacingEdge(pos, direction, spacing, w) ==
    With(parseSpacing(spacing, w.rs), LAMBDA space :
        [status |-> space.status,
         position |->
            IF space.status # "ok" THEN pos
            ELSE CASE direction = "top" -> [pos EXCEPT !.bottom = @ + space.value]
                   [] direction = "right" -> [pos EXCEPT !.left = @ + space.value]
                   [] direction = "bottom" -> [pos EXCEPT !.top = @ - space.value]
                   [] direction = "left" -> [pos EXCEPT !.right = @ - space.value]
                   [] OTHER -> pos,
         w |-> [w EXCEPT !.rs = space.rs]])

\* [status, position, w]: the cursor moved by the parsed spacing.
movePositionBySpacing(pos, direction, spacing, w) ==
    With(parseSpacing(spacing, w.rs), LAMBDA space :
        [status |-> space.status,
         position |->
            IF space.status # "ok" THEN pos
            ELSE CASE direction = "top" ->
                        [pos EXCEPT !.top = @ + space.value,
                                    !.bottom = @ + space.value]
                   [] direction = "right" ->
                        [pos EXCEPT !.left = @ + space.value,
                                    !.right = @ + space.value]
                   [] direction = "bottom" ->
                        [pos EXCEPT !.top = @ - space.value,
                                    !.bottom = @ - space.value]
                   [] direction = "left" ->
                        [pos EXCEPT !.left = @ - space.value,
                                    !.right = @ - space.value]
                   [] OTHER -> pos,
         w |-> [w EXCEPT !.rs = space.rs]])

(***************************************************************************)
(* The possibilities: an acyclic library with every mode, nested           *)
(* non-terminal children, snap, sizing, stretch, arguments, a Final child, *)
(* a schema without contents and a schema with an unknown mode.            *)
(*                                                                         *)
(* A child reference's arguments is [ref |-> id], an object of the library *)
(* held in the heap under id, or [array |-> alternatives], each with a     *)
(* percent and a values object [ref |-> id].                               *)
(***************************************************************************)
Known(title) == [title |-> title, type |-> "Known"]

Random(title) == [title |-> title, type |-> "Random"]

possibilities ==
    [ Brick |-> [width |-> 1, height |-> 1, contents |-> EmptyObject],
      Wide |-> [width |-> 2, height |-> 1, contents |-> [snap |-> "bottom"]],
      Tall |-> [width |-> 1, height |-> 2, contents |-> [snap |-> "top"]],
      Block |-> [width |-> 2, height |-> 2, contents |-> EmptyObject],
      Pipe |-> [width |-> 1, height |-> 1,
                contents |-> [argumentMap |-> [level |-> "height"]]],
      Bare |-> [width |-> 1, height |-> 1],
      Row |-> [width |-> 3, height |-> 1,
               contents |-> [mode |-> "Certain", direction |-> "right",
                             spacing |-> [kind |-> "Number", value |-> 1],
                             children |-> <<Known("Brick"), Known("Wide")>>]],
      Fill |-> [width |-> 2, height |-> 1,
                contents |-> [mode |-> "Repeat", direction |-> "right",
                              children |-> <<Known("Brick"),
                                 [title |-> "Pipe", type |-> "Known", level |-> 2,
                                  arguments |-> [ref |-> "pipeArgs"]]>>]],
      Stack |-> [width |-> 1, height |-> 2,
                 contents |-> [mode |-> "Repeat", direction |-> "top",
                               spacing |-> [kind |-> "Array", min |-> 0, max |-> 1],
                               children |-> <<Known("Brick")>>]],
      Pick |-> [width |-> 2, height |-> 1,
                contents |-> [mode |-> "Random", direction |-> "right", limit |-> 2,
                              children |-> <<
                                 [title |-> "Brick", type |-> "Known", percent |-> 30],
                                 [title |-> "Wide", type |-> "Known", percent |-> 50]>>]],
      Overlay |-> [width |-> 1, height |-> 1,
                   contents |-> [mode |-> "Multiple", direction |-> "right",
                                 spacing |-> [kind |-> "Number", value |-> 1],
                                 children |-> <<Known("Brick"), Random("Stack")>>]],
      Span |-> [width |-> 2, height |-> 2,
                contents |-> [mode |-> "Certain", direction |-> "top",
                              children |-> <<
                                 [title |-> "Brick", type |-> "Known",
                                  stretch |-> [width |-> TRUE],
                                  arguments |-> [ref |-> "spanArgs"]],
                                 [title |-> "Cap", type |-> "Final", source |-> "Brick"]>>]],
      Land |-> [width |-> 4, height |-> 2,
                contents |-> [mode |-> "Certain", direction |-> "right",
                              children |-> <<Random("Row"), Known("Tall"),
                                 [title |-> "Fill", type |-> "Other"],
                                 Random("Pick")>>]],
      World |-> [width |-> 4, height |-> 2,
                 contents |-> [mode |-> "Multiple",
                               children |-> <<Random("Land"), Known("Brick"),
                                              Random("Overlay")>>]],
      Odd |-> [width |-> 1, height |-> 1,
               contents |-> [mode |-> "Sometimes", direction |-> "right",
                             children |-> <<Known("Brick")>>]],
      Broken |-> [width |-> 2, height |-> 1,
                  contents |-> [mode |-> "Certain", direction |-> "right",
                                children |-> <<Known("Brick"), Random("Nowhere")>>]],
      Wreck |-> [width |-> 3, height |-> 1,
                 contents |-> [mode |-> "Multiple",
                               children |-> <<Known("Brick"), Random("Broken"),
                                              Known("Wide")>>]] ]

\* The arguments objects of the library, by id, as the library is loaded.
argumentObjectsInit ==
    [ pipeArgs |-> [kind |-> Num(1)],
      spanArgs |-> [kind |-> Num(2)] ]

(***************************************************************************)
(* Choice parsing.  A world w = [rs, heap] is threaded through every       *)
(* operator that draws from the random source or writes to an arguments    *)
(* object: rs is the random stream, heap the library's arguments objects.  *)
(***************************************************************************)
Truthy(obj, key) == Has(obj, key) /\ obj[key] = TRUE

\* output[name] of ensureSizingOnChoice.
sizingOf(choice, schema, name) ==
    IF Has(choice, "sizing") /\ Has(choice.sizing, name)
    THEN choice.sizing[name]
    ELSE schema[name]

\* A write that keeps what the object already holds under the key.
setArgumentOnce(n, w, key, value) ==
    IF Has(n.arguments, "own")
    THEN [node |-> [n EXCEPT !.arguments = [own |-> ObjectSet(@.own, key, value)]],
          w |-> w]
    ELSE [node |-> n,
          w |-> [w EXCEPT !.heap[n.arguments.ref] =
                    IF Has(@, key) THEN ObjectSet(@, key, [kept |-> @[key]])
                    ELSE ObjectSet(@, key, value)]]

\* output.arguments[key] = value, for a node n whose arguments is an object
\* of its own ([own |-> object]) or one of the library's ([ref |-> id]).
\* [node, w].
setArgument(n, w, key, value) ==
    IF Has(n.arguments, "own")
    THEN [node |-> [n EXCEPT !.arguments = [own |-> ObjectSet(@.own, key, value)]],
          w |-> w]
    ELSE [node |-> n,
          w |-> [w EXCEPT !.heap[n.arguments.ref] = ObjectSet(@, key, value)]]

\* if (!output.arguments) output.arguments = {}
ensureArguments(n) ==
    IF n.arguments = Undefined THEN [n EXCEPT !.arguments = [own |-> EmptyObject]]
    ELSE n

RECURSIVE copySchemaArgumentsLoop(_, _, _, _)
copySchemaArgumentsLoop(map, keys, choice, nw) ==
    IF keys = {} THEN nw
    ELSE LET i == CHOOSE k \in keys : TRUE
             value == IF Has(choice, i) THEN Num(choice[i]) ELSE Undefined
         IN  copySchemaArgumentsLoop(map, keys \ {i}, choice,
                setArgument(nw.node, nw.w, map[i], value))

\* [node, w]; schema.contents exists.
copySchemaArguments(schema, choice, n, w) ==
    IF ~Has(schema.contents, "argumentMap") THEN [node |-> n, w |-> w]
    ELSE copySchemaArgumentsLoop(schema.contents.argumentMap,
            DOMAIN schema.contents.argumentMap, choice,
            [node |-> ensureArguments(n), w |-> w])

\* The leading edge along direction: edge[direction] = edge[opposite] + size.
placeAlong(n, direction) ==
    IF direction \notin directionNames THEN n
    ELSE [n EXCEPT ![direction] =
            n[directionOpposites[direction]] + n[directionSizing[direction]]]

snapTo(n, schema) ==
    IF ~Has(schema.contents, "snap") THEN n
    ELSE CASE schema.contents.snap = "top" -> [n EXCEPT !.bottom = n.top - n.height]
           [] schema.contents.snap = "right" -> [n EXCEPT !.left = n.right - n.width]
           [] schema.contents.snap = "bottom" -> [n EXCEPT !.top = n.bottom + n.height]
           [] schema.contents.snap = "left" -> [n EXCEPT !.right = n.left + n.width]
           [] OTHER -> n

\* [node, w]: the node stretched over the cursor's width when
\* choice.stretch.width is set.
stretchWidth(choice, pos, n, w) ==
    IF ~Truthy(choice.stretch, "width") THEN [node |-> n, w |-> w]
    ELSE setArgument([n EXCEPT !.left = pos.left, !.right = pos.right,
                               !.width = pos.right - pos.left],
            w, "width", Num(pos.right - pos.left))

\* [node, w]: the same over the cursor's height.
stretchHeight(choice, pos, nw) ==
    IF ~Truthy(choice.stretch, "height") THEN nw
    ELSE setArgument([nw.node EXCEPT !.top = pos.top, !.bottom = pos.bottom,
                                     !.height = pos.top - pos.bottom],
            nw.w, "height", Num(pos.top - pos.bottom))

\* [node, w]
stretchTo(choice, pos, n, w) ==
    IF ~Has(choice, "stretch") THEN [node |-> n, w |-> w]
    ELSE stretchHeight(choice, pos,
            stretchWidth(choice, pos, ensureArguments(n), w))

\* output before sizing and placing: title, type, arguments and the cursor's
\* four edges.
choiceOutput(title, type, arguments, schema, choice, pos) ==
    [title |-> title,
     type |-> type,
     arguments |-> arguments,
     width |-> sizingOf(choice, schema, "width"),
     height |-> sizingOf(choice, schema, "height"),
     top |-> pos.top,
     right |-> pos.right,
     bottom |-> pos.bottom,
     left |-> pos.left]

\* [status, node, w] from the [node, w] of the last step of a parse.
Parsed(nw) == [status |-> "ok", node |-> nw.node, w |-> nw.w]

\* copySchemaArguments on the [node, w] of the step before it.
copySchemaArgumentsOnto(schema, choice, nw) ==
    copySchemaArguments(schema, choice, nw.node, nw.w)

\* [status, node, w].  A TypeError is raised when the arguments alternatives
\* yield nothing, or the title names no schema, or a schema without contents.
parseChoice(choice, pos, direction, w) ==
    LET isArray == Has(choice, "arguments") /\ Has(choice.arguments, "array")
        w1 == IF isArray
              THEN [w EXCEPT !.rs = chooseAmongRest(choice.arguments.array, w.rs)]
              ELSE w
        failed == [status |-> "TypeError", node |-> Undefined, w |-> w1]
    IN  With(IF isArray THEN chooseAmong(choice.arguments.array, Draw(w.rs))
             ELSE Undefined, LAMBDA chosen :
            IF isArray /\ chosen = Undefined THEN failed
            ELSE IF ~Has(possibilities, choice.title) THEN failed
            ELSE IF ~Has(possibilities[choice.title], "contents") THEN failed
            ELSE Parsed(copySchemaArgumentsOnto(possibilities[choice.title], choice,
                    stretchTo(choice, pos,
                        snapTo(placeAlong(
                                  choiceOutput(choice.title, choice.type,
                                      IF isArray THEN chosen.values
                                      ELSE IF Has(choice, "arguments")
                                      THEN choice.arguments
                                      ELSE Undefined,
                                      possibilities[choice.title], choice, pos),
                                  direction),
                               possibilities[choice.title]),
                        w1))))

\* [status, node, w]
parseChoiceFinal(parent, choice, pos, direction, w) ==
    IF ~Has(choice, "source") \/ ~Has(possibilities, choice.source)
    THEN [status |-> "TypeError", node |-> Undefined, w |-> w]
    ELSE IF ~Has(possibilities[choice.source], "contents")
    THEN [status |-> "TypeError", node |-> Undefined, w |-> w]
    ELSE Parsed(copySchemaArguments(possibilities[choice.source], choice,
            [type |-> "Known",
             title |-> choice.title,
             arguments |-> IF Has(choice, "arguments") THEN choice.arguments
                           ELSE Undefined,
             width |-> possibilities[choice.source].width,
             height |-> possibilities[choice.source].height,
             top |-> pos.top,
             right |-> pos.right,
             bottom |-> pos.bottom,
             left |-> pos.left],
            w))

(***************************************************************************)
(* Mode strategies and the generator.  Each returns a record with a status *)
(* ("ok", or the error raised: "SchemaNotFound", "EmptyContents",          *)
(* "TypeError"; "NoReturn" for a loop still running after MaxIterations    *)
(* placements), the world w it leaves and, for a strategy, the Array of    *)
(* children (or Undefined) and the cursor as the strategy left it.         *)
(***************************************************************************)
RECURSIVE generate(_, _, _)
RECURSIVE generateChildrenCertainLoop(_, _, _, _, _, _, _)
RECURSIVE generateChildrenRepeatLoop(_, _, _, _, _, _, _, _)

Raised(status, pos, w) ==
    [status |-> status, children |-> Undefined, position |-> pos, w |-> w]

\* A parse that only reads the cursor: [status, node, position, w].
Positioned(parsed, pos) ==
    [status |-> parsed.status, node |-> parsed.node, position |-> pos,
     w |-> parsed.w]

\* [status, node, position, w]: parseChoice, then for a child that is not
\* "Known" the nested generate, handed the cursor, whose result becomes the
\* child's contents.  position is the cursor as the two calls leave it.
parseChoiceWithContents(choice, pos, direction, w) ==
    With(parseChoice(choice, pos, direction, w), LAMBDA parsed :
        IF parsed.status # "ok" THEN Positioned(parsed, pos)
        ELSE IF parsed.node.type = "Known" THEN Positioned(parsed, pos)
        ELSE With(generate(parsed.node.title, pos, parsed.w), LAMBDA nested :
                IF nested.status # "ok"
                THEN [status |-> nested.status, node |-> Undefined,
                      position |-> nested.command, w |-> nested.w]
                ELSE [status |-> "ok",
                      node |-> ObjectSet(parsed.node, "contents", nested.value),
                      position |-> nested.command, w |-> nested.w]))

\* The function generateChildrenCertain maps over contents.children, applied
\* to the k-th reference: [status, child, position, w].
generateChildrenCertainBody(contents, pos, direction, spacing, k, w) ==
    IF contents.children[k].type = "Final"
    THEN With(parseChoiceFinal(contents, contents.children[k], pos, direction, w),
            LAMBDA final :
                [status |-> final.status, child |-> final.node, position |-> pos,
                 w |-> final.w])
    ELSE With(parseChoiceWithContents(contents.children[k], pos, direction, w),
            LAMBDA parsed :
                IF parsed.status # "ok"
                THEN [status |-> parsed.status, child |-> Undefined,
                      position |-> parsed.position, w |-> parsed.w]
                ELSE With(shrinkPositionByChild(parsed.position, parsed.node,
                              direction, spacing, parsed.w),
                        LAMBDA shrunk :
                            [status |-> shrunk.status, child |-> parsed.node,
                             position |-> shrunk.position, w |-> shrunk.w]))

generateChildrenCertainLoop(contents, pos, direction, spacing, k, out, w) ==
    IF k > Len(contents.children)
    THEN [status |-> "ok", children |-> ChildArray(out), position |-> pos, w |-> w]
    ELSE With(generateChildrenCertainBody(contents, pos, direction, spacing, k, w),
            LAMBDA body :
                IF body.status # "ok" THEN Raised(body.status, pos, body.w)
                ELSE generateChildrenCertainLoop(contents, body.position,
                        direction, spacing, k + 1, Append(out, body.child),
                        body.w))

generateChildrenCertain(contents, pos, direction, spacing, w) ==
    generateChildrenCertainLoop(contents, pos, direction, spacing, 1, <<>>, w)

\* One pass of the body of generateChildrenRepeat's loop, entered with the
\* index i (from 0): [status, placed, child, position, i, w].  placed is FALSE
\* when the loop breaks.
generateChildrenRepeatBody(contents, pos, direction, spacing, i, w) ==
    IF i >= Len(contents.children)
    THEN [status |-> "TypeError", placed |-> FALSE, child |-> Undefined,
          position |-> pos, i |-> i, w |-> w]
    ELSE With(IF contents.children[i + 1].type = "Final"
              THEN Positioned(parseChoiceFinal(contents, contents.children[i + 1],
                      pos, direction, w), pos)
              ELSE parseChoiceWithContents(contents.children[i + 1], pos,
                      direction, w),
            LAMBDA parsed :
                IF parsed.status # "ok"
                THEN [status |-> parsed.status, placed |-> FALSE,
                      child |-> Undefined, position |-> parsed.position,
                      i |-> i, w |-> parsed.w]
                ELSE IF ~choiceFitsPosition(parsed.node, parsed.position)
                THEN [status |-> "ok", placed |-> FALSE, child |-> parsed.node,
                      position |-> parsed.position, i |-> i, w |-> parsed.w]
                ELSE With(shrinkPositionByChild(parsed.position, parsed.node,
                              direction, spacing, parsed.w),
                        LAMBDA shrunk :
                            [status |-> shrunk.status,
                             placed |-> shrunk.status = "ok",
                             child |-> parsed.node,
                             position |-> shrunk.position,
                             i |-> IF i + 1 >= Len(contents.children) THEN 0
                                   ELSE i + 1,
                             w |-> shrunk.w]))

generateChildrenRepeatLoop(contents, pos, direction, spacing, i, out, w, fuel) ==
    IF ~positionIsNotEmpty(pos, direction)
    THEN [status |-> "ok", children |-> ChildArray(out), position |-> pos, w |-> w]
    ELSE IF fuel = 0 THEN Raised("NoReturn", pos, w)
    ELSE With(generateChildrenRepeatBody(contents, pos, direction, spacing, i, w),
            LAMBDA body :
                IF body.status # "ok"
                THEN Raised(body.status, body.position, body.w)
                ELSE IF ~body.placed
                THEN [status |-> "ok", children |-> ChildArray(out),
                      position |-> body.position, w |-> body.w]
                ELSE generateChildrenRepeatLoop(contents, body.position,
                        direction, spacing, body.i, Append(out, body.child),
                        body.w, fuel - 1))

generateChildrenRepeat(contents, pos, direction, spacing, w) ==
    generateChildrenRepeatLoop(contents, pos, direction, spacing, 0, <<>>, w,
        MaxIterations)

\* choices.filter(choice => doesChoiceFit(possibilities[choice.title], ...))
RECURSIVE filterFitting(_, _, _)
filterFitting(choices, width, height) ==
    IF Len(choices) = 0 THEN <<>>
    ELSE IF doesChoiceFit(possibilities[Head(choices).title], width, height)
    THEN <<Head(choices)>> \o filterFitting(Tail(choices), width, height)
    ELSE filterFitting(Tail(choices), width, height)

\* [status, choice, w]
chooseAmongPosition(choices, pos, w) ==
    IF \E k \in 1 .. Len(choices) : ~Has(possibilities, choices[k].title)
    THEN [status |-> "TypeError", choice |-> Undefined, w |-> w]
    ELSE With(filterFitting(choices, pos.right - pos.left, pos.top - pos.bottom),
            LAMBDA fitting :
                [status |-> "ok",
                 choice |-> chooseAmong(fitting, Draw(w.rs)),
                 w |-> [w EXCEPT !.rs = chooseAmongRest(fitting, w.rs)]])

\* [status, node, w]; node is Undefined when nothing was chosen.
generateChild(contents, pos, direction, w) ==
    With(chooseAmongPosition(contents.children, pos, w), LAMBDA chosen :
        IF chosen.status # "ok"
        THEN [status |-> chosen.status, node |-> Undefined, w |-> chosen.w]
        ELSE IF chosen.choice = Undefined
        THEN [status |-> "ok", node |-> Undefined, w |-> chosen.w]
        ELSE parseChoice(chosen.choice, pos, direction, chosen.w))

\* A pass that never finds the limit exceeded.
generateChildrenRandomBodyUnlimited(contents, pos, direction, spacing, out, w) ==
    With(generateChild(contents, pos, direction, w), LAMBDA made :
        IF made.status # "ok"
        THEN [status |-> made.status, outcome |-> "raise", child |-> Undefined,
              position |-> pos, w |-> made.w]
        ELSE IF made.node = Undefined
        THEN [status |-> "ok", outcome |-> "break", child |-> Undefined,
              position |-> pos, w |-> made.w]
        ELSE With(shrinkPositionByChild(pos, made.node, direction, spacing,
                      made.w),
                LAMBDA shrunk :
                    [status |-> shrunk.status, outcome |-> "placed",
                     child |-> made.node, position |-> shrunk.position,
                     w |-> shrunk.w]))

\* One pass of the body of generateChildrenRandom's loop, entered with the
\* children out placed so far: [status, outcome, child, position, w].  outcome
\* is "break" when nothing was chosen, "limit" when the child pushed exceeds
\* contents.limit, "placed" otherwise.
generateChildrenRandomBody(contents, pos, direction, spacing, out, w) ==
    With(generateChild(contents, pos, direction, w), LAMBDA made :
        IF made.status # "ok"
        THEN [status |-> made.status, outcome |-> "raise", child |-> Undefined,
              position |-> pos, w |-> made.w]
        ELSE IF made.node = Undefined
        THEN [status |-> "ok", outcome |-> "break", child |-> Undefined,
              position |-> pos, w |-> made.w]
        ELSE With(shrinkPositionByChild(pos, made.node, direction, spacing,
                      made.w),
                LAMBDA shrunk :
                    IF shrunk.status # "ok"
                    THEN [status |-> shrunk.status, outcome |-> "raise",
                          child |-> Undefined, position |-> pos, w |-> shrunk.w]
                    ELSE [status |-> "ok",
                          outcome |-> IF /\ Has(contents, "limit")
                                         /\ contents.limit # 0
                                         /\ Len(out) + 1 > contents.limit
                                      THEN "limit" ELSE "placed",
                          child |-> made.node,
                          position |-> shrunk.position,
                          w |-> shrunk.w]))

RECURSIVE generateChildrenRandomLoop(_, _, _, _, _, _, _)
generateChildrenRandomLoop(contents, pos, direction, spacing, out, w, fuel) ==
    IF ~positionIsNotEmpty(pos, direction)
    THEN [status |-> "ok", children |-> ChildArray(out), position |-> pos, w |-> w]
    ELSE IF fuel = 0 THEN Raised("NoReturn", pos, w)
    ELSE With(generateChildrenRandomBody(contents, pos, direction, spacing, out, w),
            LAMBDA body :
                IF body.status # "ok" THEN Raised(body.status, pos, body.w)
                ELSE IF body.outcome = "break"
                THEN [status |-> "ok", children |-> ChildArray(out),
                      position |-> pos, w |-> body.w]
                ELSE IF body.outcome = "limit"
                THEN [status |-> "ok", children |-> Undefined,
                      position |-> body.position, w |-> body.w]
                ELSE generateChildrenRandomLoop(contents, body.position,
                        direction, spacing, Append(out, body.child), body.w,
                        fuel - 1))

generateChildrenRandom(contents, pos, direction, spacing, w) ==
    generateChildrenRandomLoop(contents, pos, direction, spacing, <<>>, w,
        MaxIterations)

\* The function generateChildrenMultiple maps over contents.children, applied
\* to the k-th reference: [status, child, position, w].
generateChildrenMultipleBody(contents, pos, direction, spacing, k, w) ==
    With(parseChoice(contents.children[k], objectCopy(pos), direction, w),
        LAMBDA parsed :
            IF parsed.status # "ok"
            THEN [status |-> parsed.status, child |-> Undefined, position |-> pos,
                  w |-> parsed.w]
            ELSE With(IF direction # NoDirection
                      THEN movePositionBySpacing(pos, direction, spacing, parsed.w)
                      ELSE [status |-> "ok", position |-> pos, w |-> parsed.w],
                    LAMBDA moved :
                        [status |-> moved.status, child |-> parsed.node,
                         position |-> moved.position, w |-> moved.w]))

RECURSIVE generateChildrenMultipleLoop(_, _, _, _, _, _, _)
generateChildrenMultipleLoop(contents, pos, direction, spacing, k, out, w) ==
    IF k > Len(contents.children)
    THEN [status |-> "ok", children |-> ChildArray(out), position |-> pos, w |-> w]
    ELSE With(generateChildrenMultipleBody(contents, pos, direction, spacing, k, w),
            LAMBDA body :
                IF body.status # "ok" THEN Raised(body.status, pos, body.w)
                ELSE generateChildrenMultipleLoop(contents, body.position,
                        direction, spacing, k + 1, Append(out, body.child),
                        body.w))

generateChildrenMultiple(contents, pos, direction, spacing, w) ==
    generateChildrenMultipleLoop(contents, pos, direction, spacing, 1, <<>>, w)

\* contents.spacing || 0
spacingOf(contents) ==
    IF Has(contents, "spacing") THEN contents.spacing
    ELSE [kind |-> "Number", value |-> 0]

\* contents.direction || direction
directionOf(contents, direction) ==
    IF Has(contents, "direction") THEN contents.direction ELSE direction

\* A switch that raises on a mode it does not know.
generateChildrenOfModeStrict(contents, objectMerged, direction, spacing, w) ==
    IF ~Has(contents, "mode") THEN Raised("TypeError", objectMerged, w)
    ELSE CASE contents.mode = "Random" ->
                generateChildrenRandom(contents, objectMerged, direction, spacing, w)
           [] contents.mode = "Certain" ->
                generateChildrenCertain(contents, objectMerged, direction, spacing, w)
           [] contents.mode = "Repeat" ->
                generateChildrenRepeat(contents, objectMerged, direction, spacing, w)
           [] contents.mode = "Multiple" ->
                generateChildrenMultiple(contents, objectMerged, direction, spacing, w)
           [] OTHER -> Raised("TypeError", objectMerged, w)

\* The mode strategy that contents.mode selects, run on the merged position;
\* any other mode runs none and leaves children undefined.
generateChildrenOfMode(contents, objectMerged, direction, spacing, w) ==
    IF ~Has(contents, "mode") THEN Raised("ok", objectMerged, w)
    ELSE CASE contents.mode = "Random" ->
                generateChildrenRandom(contents, objectMerged, direction, spacing, w)
           [] contents.mode = "Certain" ->
                generateChildrenCertain(contents, objectMerged, direction, spacing, w)
           [] contents.mode = "Repeat" ->
                generateChildrenRepeat(contents, objectMerged, direction, spacing, w)
           [] contents.mode = "Multiple" ->
                generateChildrenMultiple(contents, objectMerged, direction, spacing, w)
           [] OTHER -> Raised("ok", objectMerged, w)

\* [status, value, cursor, w]: value is the envelope with its children, or
\* Undefined; cursor is objectMerged, the object the strategy worked on, as
\* the strategy left it.
generateChildren(schema, pos, direction, w) ==
    With(generateChildrenOfMode(schema.contents, objectMerge(schema, pos),
            directionOf(schema.contents, direction), spacingOf(schema.contents), w),
        LAMBDA made :
            [status |-> made.status,
             value |-> IF made.status = "ok" THEN getPositionExtremes(made.children)
                       ELSE Undefined,
             cursor |-> made.position,
             w |-> made.w])

\* [status, value, command, w]: command is the caller's object after the call.
Generated(made, command) ==
    [status |-> made.status, value |-> made.value, command |-> command,
     w |-> made.w]

\* A generate whose strategy works on the caller's object itself: the edges
\* the strategy leaves are the edges of command after the call.
generateShared(name, command, w) ==
    IF ~Has(possibilities, name)
    THEN [status |-> "SchemaNotFound", value |-> Undefined, command |-> command,
          w |-> w]
    ELSE IF ~Has(possibilities[name], "contents")
    THEN [status |-> "EmptyContents", value |-> Undefined, command |-> command,
          w |-> w]
    ELSE With(generateChildren(possibilities[name], command, NoDirection, w),
            LAMBDA made :
                Generated(made,
                    [i \in DOMAIN command |->
                        IF i \in directionNames THEN made.cursor[i]
                        ELSE command[i]]))

\* A generate that answers a missing schema or missing contents with no
\* result instead of raising.
generateLenient(name, command, w) ==
    IF ~Has(possibilities, name) \/ ~Has(possibilities[name], "contents")
    THEN [status |-> "ok", value |-> Undefined, command |-> command, w |-> w]
    ELSE Generated(generateChildren(possibilities[name], objectCopy(command),
                       NoDirection, w), command)

\* generateChildren is handed a copy, so command keeps its properties.
generate(name, command, w) ==
    IF ~Has(possibilities, name)
    THEN [status |-> "SchemaNotFound", value |-> Undefined, command |-> command,
          w |-> w]
    ELSE IF ~Has(possibilities[name], "contents")
    THEN [status |-> "EmptyContents", value |-> Undefined, command |-> command,
          w |-> w]
    ELSE Generated(generateChildren(possibilities[name], objectCopy(command),
                       NoDirection, w), command)

\* [status, commands, w]: generateFull(schema) run with this.generatedCommands
\* holding commands; an error raised part-way leaves what was pushed before it.
RECURSIVE generateFull(_, _, _)
RECURSIVE generateFullLoop(_, _, _, _)
\* A walk that recurses into every child that is not "Known".
generateFullLoopEvery(childList, i, commands, w) ==
    IF i > Len(childList) THEN [status |-> "ok", commands |-> commands, w |-> w]
    ELSE LET child == childList[i]
         IN  IF child.type = "Known"
             THEN generateFullLoop(childList, i + 1, Append(commands, child), w)
             ELSE With(generateFull(child, commands, w), LAMBDA full :
                     IF full.status # "ok" THEN full
                     ELSE generateFullLoop(childList, i + 1, full.commands,
                             full.w))

generateFullLoop(childList, i, commands, w) ==
    IF i > Len(childList) THEN [status |-> "ok", commands |-> commands, w |-> w]
    ELSE LET child == childList[i]
         IN  CASE child.type = "Known" ->
                    generateFullLoop(childList, i + 1, Append(commands, child), w)
               [] child.type = "Random" ->
                    With(generateFull(child, commands, w), LAMBDA full :
                        IF full.status # "ok" THEN full
                        ELSE generateFullLoop(childList, i + 1, full.commands,
                                full.w))
               [] OTHER -> generateFullLoop(childList, i + 1, commands, w)

generateFull(schema, commands, w) ==
    With(generate(schema.title, schema, w), LAMBDA generated :
        IF generated.status # "ok"
        THEN [status |-> generated.status, commands |-> commands, w |-> generated.w]
        ELSE IF generated.value = Undefined
        THEN [status |-> "ok", commands |-> commands, w |-> generated.w]
        ELSE generateFullLoop(generated.value.children, 1, commands, generated.w))

(***************************************************************************)
(* Parts of the state a specification leaves alone.                        *)
(***************************************************************************)
instanceVars == <<generatedCommands, delivered, lastOp, result, argumentObjects>>

loopVars == <<position, children, idx>>

InstanceIdle ==
    /\ generatedCommands = <<>>
    /\ delivered = Undefined
    /\ lastOp = "constructor"
    /\ result = Undefined
    /\ argumentObjects = argumentObjectsInit

LoopIdle ==
    /\ position = Undefined
    /\ children = <<>>
    /\ idx = 0

utilVars == <<args, ret, pc>>

UtilIdle ==
    /\ args = Undefined
    /\ ret = Undefined
    /\ pc = "idle"

(***************************************************************************)
(* The WorldSeedr instance: its public methods, called in any order with   *)
(* any of the roots, boxes and random streams below.                       *)
(***************************************************************************)
StartBoxes ==
    { [top |-> 2, right |-> 4, bottom |-> 0, left |-> 0],
      [top |-> 1, right |-> 2, bottom |-> 0, left |-> 1] }

RandomStreams == { <<0>>, <<RandDen - 1, RandDen \div 2>> }

GenerateNames == DOMAIN possibilities \cup {"Nowhere"}

FullRoots ==
    { [title |-> t, top |-> 2, right |-> 4, bottom |-> 0, left |-> 0] :
        t \in {"World", "Row", "Pick", "Odd", "Wreck", "Bare", "Nowhere"} }

Init ==
    /\ InstanceIdle
    /\ UtilIdle
    /\ LoopIdle

clearGeneratedCommands ==
    /\ generatedCommands' = <<>>
    /\ delivered' = Undefined
    /\ result' = Undefined
    /\ lastOp' = "clearGeneratedCommands"
    /\ UNCHANGED <<argumentObjects, utilVars, loopVars>>

\* A run that empties the Array once the callback has seen it.
runGeneratedCommandsFlush ==
    /\ delivered' = ChildArray(generatedCommands)
    /\ generatedCommands' = <<>>
    /\ result' = Undefined
    /\ lastOp' = "runGeneratedCommands"
    /\ UNCHANGED <<argumentObjects, utilVars, loopVars>>

runGeneratedCommands ==
    /\ delivered' = ChildArray(generatedCommands)
    /\ result' = Undefined
    /\ lastOp' = "runGeneratedCommands"
    /\ UNCHANGED <<generatedCommands, argumentObjects, utilVars, loopVars>>

Generate(name, command, rs) ==
    \E made \in {generate(name, command, [rs |-> rs, heap |-> argumentObjects])} :
        /\ made.status # "NoReturn"
        /\ result' = [name |-> name, status |-> made.status, value |-> made.value]
        /\ argumentObjects' = made.w.heap
        /\ delivered' = Undefined
        /\ lastOp' = "generate"
        /\ UNCHANGED <<generatedCommands, utilVars, loopVars>>

GenerateFull(schema, rs) ==
    \E full \in {generateFull(schema, generatedCommands,
                      [rs |-> rs, heap |-> argumentObjects])} :
        /\ Len(generatedCommands) <= MaxCommands
        /\ full.status # "NoReturn"
        /\ generatedCommands' = full.commands
        /\ result' = [schema |-> schema, rs |-> rs, status |-> full.status]
        /\ argumentObjects' = full.w.heap
        /\ delivered' = Undefined
        /\ lastOp' = "generateFull"
        /\ UNCHANGED <<utilVars, loopVars>>

Next ==
    \/ clearGeneratedCommands
    \/ runGeneratedCommands
    \/ \E name \in GenerateNames, command \in StartBoxes, rs \in RandomStreams :
            Generate(name, command, rs)
    \/ \E schema \in FullRoots, rs \in RandomStreams : GenerateFull(schema, rs)

Spec == Init /\ [][Next]_vars

\* C1: generate raises SchemaNotFound for a name absent from the registry and
\* EmptyContents for a schema without contents; either way it yields no
\* children and leaves generatedCommands as it was.
C1_GenerateFailsFast ==
    [][ lastOp' = "generate" =>
          /\ ~Has(possibilities, result'.name) =>
                /\ result'.status = "SchemaNotFound"
                /\ result'.value = Undefined
                /\ generatedCommands' = generatedCommands
          /\ (Has(possibilities, result'.name)
                /\ ~Has(possibilities[result'.name], "contents")) =>
                /\ result'.status = "EmptyContents"
                /\ result'.value = Undefined
                /\ generatedCommands' = generatedCommands ]_vars

\* C1 witness: generate has just failed on a schema without contents while
\* commands of an earlier pass were held.
C1_Witness ==
    /\ lastOp = "generate"
    /\ result.name = "Bare"
    /\ result.status = "EmptyContents"
    /\ Len(generatedCommands) > 0

\* The "Known" nodes of the expansion of a node, depth first and left to
\* right: [nodes, w].
RECURSIVE KnownDescendants(_, _)
RECURSIVE KnownOfChildren(_, _)
KnownOfChildren(childList, w) ==
    IF Len(childList) = 0 THEN [nodes |-> <<>>, w |-> w]
    ELSE LET child == Head(childList)
             first == IF child.type = "Known" THEN [nodes |-> <<child>>, w |-> w]
                      ELSE IF child.type = "Random" THEN KnownDescendants(child, w)
                      ELSE [nodes |-> <<>>, w |-> w]
             rest == KnownOfChildren(Tail(childList), first.w)
         IN  [nodes |-> first.nodes \o rest.nodes, w |-> rest.w]

KnownDescendants(node, w) ==
    LET generated == generate(node.title, node, w)
    IN  IF generated.value = Undefined THEN [nodes |-> <<>>, w |-> generated.w]
        ELSE KnownOfChildren(generated.value.children, generated.w)

Titles(nodes) == [i \in 1 .. Len(nodes) |-> nodes[i].title]

IsPrefix(s, t) == Len(s) <= Len(t) /\ SubSeq(t, 1, Len(s)) = s

\* C3: clearGeneratedCommands leaves the Array empty; runGeneratedCommands
\* hands the current Array to onPlacement and leaves it as it was;
\* generateFull only appends.
C3_ClearRunAppend ==
    [][ /\ lastOp' = "clearGeneratedCommands" => generatedCommands' = <<>>
        /\ lastOp' = "runGeneratedCommands" =>
              /\ delivered' = ChildArray(generatedCommands)
              /\ generatedCommands' = generatedCommands
        /\ lastOp' = "generateFull" =>
              IsPrefix(generatedCommands, generatedCommands') ]_vars

\* C3 witness: two passes over "Row" with a run but no clear between them:
\* the first pass's commands are followed by the second's.
C3_Witness ==
    /\ lastOp = "generateFull"
    /\ result.schema.title = "Row"
    /\ Len(generatedCommands) = 4
    /\ generatedCommands[3] = generatedCommands[1]
    /\ generatedCommands[4] = generatedCommands[2]
    /\ generatedCommands[1].title = "Brick"
    /\ generatedCommands[2].title = "Wide"

\* A schema with contents whose mode is none of the four.
UnknownMode(name) ==
    /\ Has(possibilities, name)
    /\ Has(possibilities[name], "contents")
    /\ \/ ~Has(possibilities[name].contents, "mode")
       \/ possibilities[name].contents.mode
              \notin {"Certain", "Repeat", "Random", "Multiple"}

\* C16: generate on a schema whose contents.mode is none of Certain, Repeat,
\* Random and Multiple raises nothing and returns no result; generateFull on
\* such a node returns without appending to generatedCommands.
C16_UnknownModeIsSilent ==
    [][ /\ (lastOp' = "generate" /\ UnknownMode(result'.name)) =>
            /\ result'.status = "ok"
            /\ result'.value = Undefined
            /\ generatedCommands' = generatedCommands
        /\ (lastOp' = "generateFull" /\ UnknownMode(result'.schema.title)) =>
            /\ result'.status = "ok"
            /\ generatedCommands' = generatedCommands ]_vars

\* C16 witness: generateFull has just returned from Odd, whose mode is
\* "Sometimes", with the commands of an earlier pass still held.
C16_Witness ==
    /\ lastOp = "generateFull"
    /\ result.schema.title = "Odd"
    /\ possibilities["Odd"].contents.mode = "Sometimes"
    /\ result.status = "ok"
    /\ Len(generatedCommands) > 0

\* C12 as claimed: no call to generate or generateFull changes anything in
\* the possibilities, the arguments object of a child reference included
\* (the schemas and references themselves are never written to; the
\* arguments objects are the part of the possibilities that can change).
C12_RegistryUnchanged ==
    [][ lastOp' \in {"generate", "generateFull"} =>
            argumentObjects' = argumentObjects ]_vars

(***************************************************************************)
(* generateChildrenRepeat, one pass of its loop at a time, on every child  *)
(* list of up to MaxRepeatChoices references, every direction, every box   *)
(* within 0 .. MaxBox and every spacing below.                             *)
(***************************************************************************)
ModeBoxes ==
    { [top |-> t, right |-> r, bottom |-> b, left |-> l] :
        l \in 0 .. 1, b \in 0 .. 1, r \in 0 .. MaxBox, t \in 0 .. MaxBox }

ConventionalBoxes == { b \in ModeBoxes : b.top >= b.bottom /\ b.right >= b.left }

\* Terminal references of positive width and height.
TerminalChoices == { Known("Brick"), Known("Wide"), Known("Tall"), Known("Block") }

RepeatChoices ==
    TerminalChoices \cup
        { [title |-> "Cap", type |-> "Final", source |-> "Brick"],
          Random("Row"),
          Known("Nowhere") }

RepeatChoiceLists ==
    UNION { [1 .. n -> RepeatChoices] : n \in 1 .. MaxRepeatChoices }

RepeatSpacings ==
    { [kind |-> "Number", value |-> n] : n \in 0 .. MaxSpacing }
        \cup { [kind |-> "Array", min |-> 0, max |-> 1] }

RepeatDraws == {0, RandDen - 1}

InitRepeat ==
    /\ args \in [children : RepeatChoiceLists, direction : directionNames,
                 spacing : RepeatSpacings, positionOld : ConventionalBoxes]
    /\ position = args.positionOld
    /\ children = <<>>
    /\ idx = 0
    /\ pc = "loop"
    /\ ret = Undefined
    /\ InstanceIdle

RepeatBody(r) ==
    generateChildrenRepeatBody(args, position, args.direction, args.spacing, idx,
        [rs |-> <<r>>, heap |-> argumentObjects])

\* while (this.positionIsNotEmpty(position, direction)) fails: return children.
RepeatExit ==
    /\ pc = "loop"
    /\ ~positionIsNotEmpty(position, args.direction)
    /\ pc' = "done"
    /\ ret' = ChildArray(children)
    /\ UNCHANGED <<args, position, children, idx, instanceVars>>

\* A pass that places its child and shrinks the cursor.
RepeatPlace ==
    /\ pc = "loop"
    /\ positionIsNotEmpty(position, args.direction)
    /\ Len(children) < MaxIterations
    /\ \E r \in RepeatDraws :
          \E body \in {RepeatBody(r)} :
              /\ body.status = "ok"
              /\ body.placed
              /\ position' = body.position
              /\ children' = Append(children, body.child)
              /\ idx' = body.i
              /\ argumentObjects' = body.w.heap
    /\ UNCHANGED <<args, ret, pc, generatedCommands, delivered, lastOp, result>>

\* A pass whose child does not fit: break, return children.
RepeatBreak ==
    /\ pc = "loop"
    /\ positionIsNotEmpty(position, args.direction)
    /\ \E r \in RepeatDraws :
          \E body \in {RepeatBody(r)} :
              /\ body.status = "ok"
              /\ ~body.placed
              /\ argumentObjects' = body.w.heap
    /\ pc' = "done"
    /\ ret' = ChildArray(children)
    /\ UNCHANGED <<args, position, children, idx, generatedCommands, delivered,
                   lastOp, result>>

\* A pass that raises.
RepeatRaise ==
    /\ pc = "loop"
    /\ positionIsNotEmpty(position, args.direction)
    /\ \E r \in RepeatDraws :
          \E body \in {RepeatBody(r)} :
              /\ body.status # "ok"
              /\ argumentObjects' = body.w.heap
    /\ pc' = "raised"
    /\ UNCHANGED <<args, ret, position, children, idx, generatedCommands,
                   delivered, lastOp, result>>

NextRepeat == RepeatExit \/ RepeatPlace \/ RepeatBreak \/ RepeatRaise

SpecRepeat == InitRepeat /\ [][NextRepeat]_vars

Inside(child, box) ==
    /\ child.left >= box.left
    /\ child.right <= box.right
    /\ child.bottom >= box.bottom
    /\ child.top <= box.top

\* C4 as claimed: in Repeat mode, for every direction, every non-negative
\* spacing and every box with top >= bottom and right >= left, every child of
\* the list lies inside the initial box.
C4_RepeatChildrenInsideBox ==
    \A k \in 1 .. Len(children) : Inside(children[k], args.positionOld)

\* C17 as claimed: every node a mode strategy produces from a cursor with
\* top >= bottom and right >= left, for every direction and snap, has
\* top >= bottom and right >= left itself.
C17_NodesKeepConvention ==
    \A k \in 1 .. Len(children) :
        /\ children[k].top >= children[k].bottom
        /\ children[k].right >= children[k].left

\* The same frame in Repeat mode: a pass of the loop changes no edge of the
\* cursor but the one opposite the direction.
C18_RepeatCursorFrame ==
    [][ LET edge == directionOpposites[args.direction]
        IN  position' = [position EXCEPT ![edge] = position'[edge]] ]_vars

AllTerminal(choices) == \A k \in 1 .. Len(choices) : choices[k] \in TerminalChoices

\* C5 as claimed: with terminal children of positive width and height the
\* loop always stops.  The loop reads only the cursor and the index besides
\* its fixed inputs, so under a fixed spacing a pass that leaves both as they
\* were is followed by the same pass for ever: no such pass may exist.
C5_RepeatLoopMakesProgress ==
    [][ ( /\ pc = "loop"
          /\ pc' = "loop"
          /\ AllTerminal(args.children)
          /\ args.spacing.kind = "Number"
          /\ Len(children') > Len(children) )
        => <<position', idx'>> # <<position, idx>> ]_vars

(***************************************************************************)
(* generate on a "Certain" schema placing rightwards: every list of up to  *)
(* MaxCertainChoices children, every fixed spacing from -MaxSpacing to     *)
(* MaxSpacing and every box.  generate looks the schema up and hands it to *)
(* generateChildren with a copy of the box.                                *)
(***************************************************************************)
\* "Known" references to schemas without snap, of every width up to 2.
PlainChoices ==
    { Known("Brick"), Known("Block") }
        \cup { [title |-> "Brick", type |-> "Known", sizing |-> [width |-> n]] :
                 n \in {0, 2} }

CertainChoices ==
    PlainChoices \cup
        { Known("Wide"),
          [title |-> "Brick", type |-> "Known", stretch |-> [width |-> TRUE]],
          [title |-> "Cap", type |-> "Final", source |-> "Brick"] }

CertainChoiceLists ==
    UNION { [1 .. n -> CertainChoices] : n \in 1 .. MaxCertainChoices }

CertainBoxes == { b \in ConventionalBoxes : b.bottom = 0 /\ b.top = 2 }

CertainSchema(choices, spacing) ==
    [width |-> 2, height |-> 2,
     contents |-> [mode |-> "Certain", direction |-> "right",
                   spacing |-> [kind |-> "Number", value |-> spacing],
                   children |-> choices]]

InitCertain ==
    /\ args \in [children : CertainChoiceLists,
                 spacing : (0 - MaxSpacing) .. MaxSpacing,
                 box : CertainBoxes]
    /\ pc = "call"
    /\ ret = Undefined
    /\ InstanceIdle
    /\ LoopIdle

GenerateCertainCall ==
    /\ pc = "call"
    /\ \E made \in {generateChildren(CertainSchema(args.children, args.spacing),
                         objectCopy(args.box), NoDirection,
                         [rs |-> <<0>>, heap |-> argumentObjects])} :
           /\ ret' = [status |-> made.status, value |-> made.value]
           /\ argumentObjects' = made.w.heap
    /\ pc' = "done"
    /\ UNCHANGED <<args, generatedCommands, delivered, lastOp, result, loopVars>>

NextCertain == GenerateCertainCall

SpecCertain == InitCertain /\ [][NextCertain]_vars

AllPlain(choices) == \A k \in 1 .. Len(choices) : choices[k] \in PlainChoices

\* The width a plain reference asks for.
PlainWidth(choice) ==
    IF Has(choice, "sizing") THEN choice.sizing.width
    ELSE possibilities[choice.title].width

\* One node per reference in list order, the first at the box's left, each as
\* wide as its reference asks, each later one s to the right of the one
\* before, inside an envelope from the box's left to the last node's right.
PlacedInARow(choices, box, spacing, made) ==
    /\ made.status = "ok"
    /\ made.value # Undefined
    /\ LET nodes == made.value.children
       IN  /\ Len(nodes) = Len(choices)
           /\ \A k \in 1 .. Len(nodes) :
                 /\ nodes[k].title = choices[k].title
                 /\ nodes[k].width = PlainWidth(choices[k])
                 /\ nodes[k].right = nodes[k].left + nodes[k].width
                 /\ k > 1 => nodes[k].left = nodes[k - 1].right + spacing
           /\ nodes[1].left = box.left
           /\ made.value.left = box.left
           /\ made.value.right = nodes[Len(nodes)].right

\* C6 as claimed: Certain mode placing rightwards with any fixed numeric
\* spacing s and terminal children without snap or stretch.
C6_CertainRowAnySpacing ==
    (pc = "done" /\ AllPlain(args.children)) =>
        PlacedInARow(args.children, args.box, args.spacing, ret)

\* C6 amended: the same for a fixed spacing s >= 0.
C6_CertainRowNonNegativeSpacing ==
    (pc = "done" /\ AllPlain(args.children) /\ args.spacing >= 0) =>
        PlacedInARow(args.children, args.box, args.spacing, ret)

\* C6 witness: widths 1 and 2 with spacing 0 in the box [0, 3] give the nodes
\* [0, 1] and [1, 3] and the envelope [0, 3].
C6_Witness ==
    /\ pc = "done"
    /\ args.children = <<Known("Brick"), Known("Block")>>
    /\ args.spacing = 0
    /\ args.box.left = 0
    /\ args.box.right = 3
    /\ ret.value.children[1].left = 0
    /\ ret.value.children[1].right = 1
    /\ ret.value.children[2].left = 1
    /\ ret.value.children[2].right = 3
    /\ ret.value.left = 0
    /\ ret.value.right = 3

(***************************************************************************)
(* chooseAmong on every list of up to MaxChoices weighted items and every  *)
(* draw of the random source.                                              *)
(***************************************************************************)
Percents == {0, 20, 30, 50, 70}

ChoiceLists ==
    UNION { { [i \in 1 .. n |-> [title |-> i, percent |-> f[i]]] :
                f \in [1 .. n -> Percents] } : n \in 0 .. MaxChoices }

InitChooseAmong ==
    /\ args \in [choices : ChoiceLists, r : RandomDraws]
    /\ ret = Undefined
    /\ pc = "call"
    /\ InstanceIdle
    /\ LoopIdle

ChooseAmongCall ==
    /\ pc = "call"
    /\ ret' = chooseAmong(args.choices, args.r)
    /\ pc' = "done"
    /\ UNCHANGED <<args, instanceVars, loopVars>>

NextChooseAmong == ChooseAmongCall

SpecChooseAmong == InitChooseAmong /\ [][NextChooseAmong]_vars

\* The sum of the first n percents.
RECURSIVE CumulativePercent(_, _)
CumulativePercent(choices, n) ==
    IF n = 0 THEN 0 ELSE CumulativePercent(choices, n - 1) + choices[n].percent

\* C7: chooseAmong returns undefined for an empty list, the sole element of a
\* singleton whatever the draw, and for two or more items and the percentage
\* draw d (always within 1 .. 100) the first item in list order whose
\* cumulative percent is greater than or equal to d.
C7_ChooseAmongFirstCumulative ==
    pc = "done" =>
        LET choices == args.choices
            d == randomPercentage(args.r)
        IN  /\ d \in 1 .. 100
            /\ Len(choices) = 0 => ret = Undefined
            /\ Len(choices) = 1 => ret = choices[1]
            /\ Len(choices) >= 2 =>
                 \A i \in 1 .. Len(choices) :
                    ( /\ CumulativePercent(choices, i) >= d
                      /\ \A j \in 1 .. (i - 1) : CumulativePercent(choices, j) < d )
                    => ret = choices[i]

\* C7 witness: percents [30, 70] and the draw 51 return the second item.
C7_Witness ==
    /\ pc = "done"
    /\ Len(args.choices) = 2
    /\ args.choices[1].percent = 30
    /\ args.choices[2].percent = 70
    /\ randomPercentage(args.r) = 51
    /\ ret = args.choices[2]

\* C8 as claimed: for a non-empty list chooseAmong never returns undefined, and
\* when the percents sum to less than 100 every draw above the sum returns the
\* last item.
C8_LastItemIsCatchAll ==
    (pc = "done" /\ Len(args.choices) >= 1) =>
        LET choices == args.choices
            d == randomPercentage(args.r)
            total == CumulativePercent(choices, Len(choices))
        IN  /\ ret # Undefined
            /\ (total < 100 /\ d > total) => ret = choices[Len(choices)]

(***************************************************************************)
(* parseSpacing on every shape of spacing.                                 *)
(***************************************************************************)
SpacingEdges == 0 .. MaxSpacingEdge

SpacingObjects ==
    { [kind |-> "Object", min |-> a, max |-> b] : a, b \in SpacingEdges }
    \cup { [kind |-> "Object", min |-> a, max |-> b, units |-> u] :
             a, b \in SpacingEdges, u \in 0 .. MaxUnits }

SpacingNumbers == { [kind |-> "Number", value |-> n] : n \in SpacingEdges }

SpacingArrays ==
    { [kind |-> "Array", min |-> a, max |-> b] : a, b \in SpacingEdges }

SpacingChoices ==
    { [kind |-> "Choices", choices |-> c] :
        c \in { <<[percent |-> 30, value |-> [kind |-> "Number", value |-> 2]],
                  [percent |-> 40, value |-> [kind |-> "Object", min |-> 0, max |-> 4, units |-> 2]]>>,
                <<[percent |-> 100, value |-> [kind |-> "Object", min |-> 1, max |-> 3]]>>,
                <<>> } }

SpacingValues ==
    {Undefined} \cup SpacingNumbers \cup SpacingArrays \cup SpacingChoices
        \cup SpacingObjects

InitSpacing ==
    /\ args \in [spacing : SpacingValues, rs : { <<r>> : r \in RandomDraws }]
    /\ ret = Undefined
    /\ pc = "call"
    /\ InstanceIdle
    /\ LoopIdle

ParseSpacingCall ==
    /\ pc = "call"
    /\ ret' = parseSpacing(args.spacing, args.rs)
    /\ pc' = "done"
    /\ UNCHANGED <<args, instanceVars, loopVars>>

NextSpacing == ParseSpacingCall

SpecSpacing == InitSpacing /\ [][NextSpacing]_vars

IsSpacingObjectCall ==
    /\ pc = "done"
    /\ args.spacing # Undefined
    /\ args.spacing.kind = "Object"
    /\ args.spacing.min <= args.spacing.max

\* C10 as claimed: for integers min <= max and units >= 1 the result is an
\* integer multiple of units within [min, max]; with units omitted it is an
\* integer within [min, max].
C10_SpacingObjectInRange ==
    IsSpacingObjectCall =>
        LET s == args.spacing
        IN  /\ ret.status = "ok"
            /\ ret.value \in s.min .. s.max
            /\ (Has(s, "units") /\ s.units >= 1) => ret.value % s.units = 0

\* C10 for min and max that are integer multiples of units: the result is a
\* multiple of units within [min, max].
C10_SpacingObjectInRangeOfMultiples ==
    ( /\ IsSpacingObjectCall
      /\ Has(args.spacing, "units") =>
            ( /\ args.spacing.units >= 1
              /\ args.spacing.min % args.spacing.units = 0
              /\ args.spacing.max % args.spacing.units = 0 ) )
    =>  LET s == args.spacing
        IN  /\ ret.status = "ok"
            /\ ret.value \in s.min .. s.max
            /\ Has(s, "units") => ret.value % s.units = 0

\* C10 witness: {min: 2, max: 4, units: 2} with a draw in the upper third
\* returns 4.
C10_Witness ==
    /\ IsSpacingObjectCall
    /\ Has(args.spacing, "units")
    /\ args.spacing.units = 2
    /\ args.spacing.min = 2
    /\ args.spacing.max = 4
    /\ ret.value = 4

(***************************************************************************)
(* getPositionExtremes on every list of up to MaxExtremeChildren children. *)
(***************************************************************************)
EdgeValues == 0 .. 2

ExtremeBoxes ==
    [top : EdgeValues, right : EdgeValues, bottom : EdgeValues, left : EdgeValues]

\* A keyless child can only follow a first child that has edges.
ExtremeLists ==
    UNION { { c \in [1 .. n -> ExtremeBoxes \cup {EmptyChild}] :
                n >= 1 => c[1] # EmptyChild } : n \in 0 .. MaxExtremeChildren }

InitExtremes ==
    /\ args \in [children : {ChildArray(c) : c \in ExtremeLists} \cup {Undefined}]
    /\ ret = [pending |-> TRUE]
    /\ pc = "call"
    /\ InstanceIdle
    /\ LoopIdle

GetPositionExtremesCall ==
    /\ pc = "call"
    /\ ret' = getPositionExtremes(args.children)
    /\ pc' = "done"
    /\ UNCHANGED <<args, instanceVars, loopVars>>

NextExtremes == GetPositionExtremesCall

SpecExtremes == InitExtremes /\ [][NextExtremes]_vars

NonDegenerate(list) == \A i \in 1 .. Len(list) : list[i] # EmptyChild

\* C9: no envelope for an empty or absent list; for non-degenerate children
\* the envelope's top and right are the greatest top and right, its bottom and
\* left the least bottom and left, so every child lies inside it; for one child
\* it is the child's own box; it carries the child list unchanged.
C9_EnvelopeIsExtremes ==
    pc = "done" =>
        /\ args.children = Undefined => ret = Undefined
        /\ (args.children # Undefined /\ Len(args.children.list) = 0) =>
             ret = Undefined
        /\ ( /\ args.children # Undefined
             /\ Len(args.children.list) >= 1
             /\ NonDegenerate(args.children.list) ) =>
             LET list == args.children.list
             IN  /\ ret # Undefined
                 /\ ret.children = list
                 /\ \A i \in 1 .. Len(list) :
                        /\ list[i].top <= ret.top
                        /\ list[i].right <= ret.right
                        /\ list[i].bottom >= ret.bottom
                        /\ list[i].left >= ret.left
                 /\ \E i \in 1 .. Len(list) : list[i].top = ret.top
                 /\ \E i \in 1 .. Len(list) : list[i].right = ret.right
                 /\ \E i \in 1 .. Len(list) : list[i].bottom = ret.bottom
                 /\ \E i \in 1 .. Len(list) : list[i].left = ret.left
                 /\ Len(list) = 1 =>
                        /\ ret.top = list[1].top
                        /\ ret.right = list[1].right
                        /\ ret.bottom = list[1].bottom
                        /\ ret.left = list[1].left

\* C9 witness: two children, the second higher, lower and further left than
\* the first.
C9_Witness ==
    /\ pc = "done"
    /\ args.children # Undefined
    /\ Len(args.children.list) = 2
    /\ NonDegenerate(args.children.list)
    /\ args.children.list[2].top > args.children.list[1].top
    /\ args.children.list[2].left < args.children.list[1].left
    /\ args.children.list[2].bottom < args.children.list[1].bottom
    /\ args.children.list[2].right < args.children.list[1].right
    /\ ret.top = args.children.list[2].top
    /\ ret.left = args.children.list[2].left
    /\ ret.bottom = args.children.list[2].bottom
    /\ ret.right = args.children.list[1].right

(***************************************************************************)
(* Replay: generate and generateFull (from an empty accumulator) run twice *)
(* with the same name, box and random stream, the second time either on    *)
(* the same instance or on a new instance built from the same              *)
(* possibilities.                                                          *)
(***************************************************************************)
ReplayStreams ==
    RandomStreams \cup { <<RandDen \div 4, RandDen - 1>>, <<RandDen \div 2, 0, RandDen - 1>> }

\* What a run shows: the tree generate returns, the commands generateFull
\* accumulates, the arguments objects and the random stream left behind.
RunOnce(name, box, rs, heap) ==
    With(generate(name, box, [rs |-> rs, heap |-> heap]), LAMBDA made :
    With(generateFull(ObjectSet(box, "title", name), <<>>,
            [rs |-> rs, heap |-> made.w.heap]), LAMBDA full :
        [status |-> made.status,
         value |-> made.value,
         rest |-> made.w.rs,
         fullStatus |-> full.status,
         commands |-> full.commands,
         fullRest |-> full.w.rs,
         heap |-> full.w.heap]))

InitReplay ==
    /\ args \in [name : GenerateNames, box : StartBoxes, rs : ReplayStreams]
    /\ pc = "first"
    /\ ret = Undefined
    /\ InstanceIdle
    /\ LoopIdle

ReplayFirst ==
    /\ pc = "first"
    /\ \E run \in {RunOnce(args.name, args.box, args.rs, argumentObjects)} :
          /\ ret' = [first |-> run]
          /\ argumentObjects' = run.heap
    /\ pc' = "second"
    /\ UNCHANGED <<args, generatedCommands, delivered, lastOp, result, loopVars>>

\* The second run on the instance the first run left.
ReplaySameInstance ==
    /\ pc = "second"
    /\ \E run \in {RunOnce(args.name, args.box, args.rs, argumentObjects)} :
          /\ ret' = [first |-> ret.first, second |-> run]
          /\ argumentObjects' = run.heap
    /\ pc' = "done"
    /\ UNCHANGED <<args, generatedCommands, delivered, lastOp, result, loopVars>>

\* The second run on a new WorldSeedr with the same possibilities.
ReplayNewInstance ==
    /\ pc = "second"
    /\ \E run \in {RunOnce(args.name, args.box, args.rs, argumentObjectsInit)} :
          /\ ret' = [first |-> ret.first, second |-> run]
          /\ argumentObjects' = run.heap
    /\ pc' = "done"
    /\ UNCHANGED <<args, generatedCommands, delivered, lastOp, result, loopVars>>

NextReplay == ReplayFirst \/ ReplaySameInstance \/ ReplayNewInstance

SpecReplay == InitReplay /\ [][NextReplay]_vars

RandomChoices ==
    { [title |-> t, type |-> "Known", percent |-> 50] : t \in {"Brick", "Wide", "Nowhere"} }
        \cup { [title |-> "Tall", type |-> "Known", percent |-> 30] }

RandomChoiceLists == UNION { [1 .. n -> RandomChoices] : n \in 1 .. 2 }

InitRandom ==
    /\ args \in [children : RandomChoiceLists, limit : 1 .. MaxLimit,
                 direction : directionNames,
                 spacing : { [kind |-> "Number", value |-> n] : n \in 0 .. 1 },
                 positionOld : ConventionalBoxes]
    /\ position = args.positionOld
    /\ children = <<>>
    /\ idx = 0
    /\ pc = "loop"
    /\ ret = Undefined
    /\ InstanceIdle

RandomBody(r) ==
    generateChildrenRandomBody(args, position, args.direction, args.spacing,
        children, [rs |-> <<r>>, heap |-> argumentObjects])

\* while (this.positionIsNotEmpty(position, direction)) fails: return children.
RandomExit ==
    /\ pc = "loop"
    /\ ~positionIsNotEmpty(position, args.direction)
    /\ pc' = "done"
    /\ ret' = getPositionExtremes(ChildArray(children))
    /\ UNCHANGED <<args, position, children, idx, instanceVars>>

\* A pass in which nothing is chosen: break, return children.
RandomBreak ==
    /\ pc = "loop"
    /\ positionIsNotEmpty(position, args.direction)
    /\ \E r \in RepeatDraws :
          \E body \in {RandomBody(r)} :
              /\ body.status = "ok"
              /\ body.outcome = "break"
              /\ argumentObjects' = body.w.heap
    /\ pc' = "done"
    /\ ret' = getPositionExtremes(ChildArray(children))
    /\ UNCHANGED <<args, position, children, idx, generatedCommands, delivered,
                   lastOp, result>>

\* A pass that places its child within the limit.
RandomPlace ==
    /\ pc = "loop"
    /\ positionIsNotEmpty(position, args.direction)
    /\ Len(children) < MaxIterations
    /\ \E r \in RepeatDraws :
          \E body \in {RandomBody(r)} :
              /\ body.status = "ok"
              /\ body.outcome = "placed"
              /\ position' = body.position
              /\ children' = Append(children, body.child)
              /\ argumentObjects' = body.w.heap
    /\ UNCHANGED <<args, ret, pc, idx, generatedCommands, delivered, lastOp, result>>

\* A pass whose child is one more than the limit: return nothing.
RandomLimit ==
    /\ pc = "loop"
    /\ positionIsNotEmpty(position, args.direction)
    /\ \E r \in RepeatDraws :
          \E body \in {RandomBody(r)} :
              /\ body.status = "ok"
              /\ body.outcome = "limit"
              /\ position' = body.position
              /\ children' = Append(children, body.child)
              /\ argumentObjects' = body.w.heap
    /\ pc' = "done"
    /\ ret' = getPositionExtremes(Undefined)
    /\ UNCHANGED <<args, idx, generatedCommands, delivered, lastOp, result>>

\* A pass that raises.
RandomRaise ==
    /\ pc = "loop"
    /\ positionIsNotEmpty(position, args.direction)
    /\ \E r \in RepeatDraws :
          \E body \in {RandomBody(r)} :
              /\ body.status # "ok"
              /\ argumentObjects' = body.w.heap
    /\ pc' = "raised"
    /\ UNCHANGED <<args, ret, position, children, idx, generatedCommands,
                   delivered, lastOp, result>>

NextRandom == RandomExit \/ RandomBreak \/ RandomPlace \/ RandomLimit \/ RandomRaise

SpecRandom == InitRandom /\ [][NextRandom]_vars

\* C13 as claimed: with a limit L >= 1 generate returns a result with at most
\* L children or no result, and no result exactly when an (L+1)-th child was
\* placed.
C13_LimitExactlyWhenExceeded ==
    pc = "done" =>
        /\ ret = Undefined \/ Len(ret.children) <= args.limit
        /\ ret = Undefined <=> Len(children) = args.limit + 1

\* C13 amended: with a limit L >= 1 generate returns a result with at most L
\* children, which are the children placed, or no result; and no result
\* exactly when an (L+1)-th child was placed or no child was placed at all.
C13_LimitOrNothingPlaced ==
    pc = "done" =>
        /\ ret = Undefined \/ Len(ret.children) <= args.limit
        /\ ret # Undefined => ret.children = children
        /\ ret = Undefined <=>
              (Len(children) = args.limit + 1 \/ Len(children) = 0)

\* C13 witness: with limit 2 a third child has been placed and generate
\* returned nothing.
C13_Witness ==
    /\ pc = "done"
    /\ args.limit = 2
    /\ Len(children) = 3
    /\ ret = Undefined

(***************************************************************************)
(* generateChildrenCertain, one child reference at a time, on every list   *)
(* of up to MaxRepeatChoices references below, every direction, every      *)
(* fixed spacing and every box of height 2.                                *)
(***************************************************************************)
StepChoices ==
    { Known("Brick"), Known("Wide"), Random("Row"), Known("Nowhere"),
      [title |-> "Brick", type |-> "Known", stretch |-> [width |-> TRUE]],
      [title |-> "Cap", type |-> "Final", source |-> "Brick"] }

StepChoiceLists == UNION { [1 .. n -> StepChoices] : n \in 1 .. MaxRepeatChoices }

InitCertainSteps ==
    /\ args \in [children : StepChoiceLists, direction : directionNames,
                 spacing : { [kind |-> "Number", value |-> n] : n \in 0 .. MaxSpacing },
                 positionOld : CertainBoxes]
    /\ position = args.positionOld
    /\ children = <<>>
    /\ idx = 0
    /\ pc = "loop"
    /\ ret = Undefined
    /\ InstanceIdle

CertainBody ==
    generateChildrenCertainBody(args, position, args.direction, args.spacing,
        idx + 1, [rs |-> <<0>>, heap |-> argumentObjects])

\* The next reference is parsed: its node joins the output.
CertainPlace ==
    /\ pc = "loop"
    /\ idx < Len(args.children)
    /\ \E body \in {CertainBody} :
          /\ body.status = "ok"
          /\ position' = body.position
          /\ children' = Append(children, body.child)
          /\ argumentObjects' = body.w.heap
    /\ idx' = idx + 1
    /\ UNCHANGED <<args, ret, pc, generatedCommands, delivered, lastOp, result>>

\* The next reference raises.
CertainRaise ==
    /\ pc = "loop"
    /\ idx < Len(args.children)
    /\ \E body \in {CertainBody} :
          /\ body.status # "ok"
          /\ argumentObjects' = body.w.heap
    /\ pc' = "raised"
    /\ UNCHANGED <<args, ret, position, children, idx, generatedCommands,
                   delivered, lastOp, result>>

\* Every reference has been mapped: return the nodes.
CertainReturn ==
    /\ pc = "loop"
    /\ idx = Len(args.children)
    /\ pc' = "done"
    /\ ret' = ChildArray(children)
    /\ UNCHANGED <<args, position, children, idx, instanceVars>>

NextCertainSteps == CertainPlace \/ CertainRaise \/ CertainReturn

SpecCertainSteps == InitCertainSteps /\ [][NextCertainSteps]_vars

\* The cursor after, given the cursor before: its trailing edge in the
\* direction at the child's leading edge plus the spacing, as
\* shrinkPositionByChild moves it.
ShrunkTo(after, child, direction, space) ==
    CASE direction = "top" -> after.bottom = child.top + space
      [] direction = "right" -> after.left = child.right + space
      [] direction = "bottom" -> after.top = child.bottom - space
      [] direction = "left" -> after.right = child.left - space

\* C14 as claimed: in Certain mode the cursor is shrunk after every parsed
\* child, parsed by parseChoiceFinal or by parseChoice: when the node joins
\* the output the cursor's trailing edge is at the node's leading edge plus
\* the spacing.
C14_CertainShrinksAfterEveryChild ==
    [][ (pc = "loop" /\ Len(children') = Len(children) + 1) =>
            ShrunkTo(position', children'[Len(children')], args.direction,
                args.spacing.value) ]_vars

\* C14 without the "Final" children: the cursor is shrunk after every child
\* parsed by parseChoice.
C14_CertainShrinksAfterParseChoice ==
    [][ ( /\ pc = "loop"
          /\ Len(children') = Len(children) + 1
          /\ args.children[idx + 1].type # "Final" ) =>
            ShrunkTo(position', children'[Len(children')], args.direction,
                args.spacing.value) ]_vars

\* C18: the cursor of a Certain pass is private to it.  A pass that places a
\* child changes no edge of the cursor but the one opposite the direction,
\* and changes that edge only to where shrinkPositionByChild puts it; the
\* nested generate for a child that is not "Known", handed the cursor, gives
\* it back with every property as it was.
C18_CursorsArePrivate ==
    [][ (pc = "loop" /\ Len(children') = Len(children) + 1) =>
            LET child == children'[Len(children')]
                edge == directionOpposites[args.direction]
            IN  /\ position' = [position EXCEPT ![edge] = position'[edge]]
                /\ position'[edge] # position[edge] =>
                       ShrunkTo(position', child, args.direction,
                           args.spacing.value)
                /\ child.type # "Known" =>
                       generate(child.title, position,
                           [rs |-> <<0>>, heap |-> argumentObjects]).command
                         = position ]_vars

\* C18 witness: a "Row" was placed upwards, its nested generate placed
\* children of its own to the right, and the cursor lost its bottom edge only.
C18_Witness ==
    /\ pc = "loop"
    /\ args.direction = "top"
    /\ Len(children) = 1
    /\ children[1].type = "Random"
    /\ Has(children[1], "contents")
    /\ children[1].contents # Undefined
    /\ Len(children[1].contents.children) > 0
    /\ position.bottom # args.positionOld.bottom
    /\ position.left = args.positionOld.left

(***************************************************************************)
(* generateChildrenCertain, one child reference at a time, on lists of     *)
(* references that stretch: over the width with an arguments object of the *)
(* library, over the height with none, and a "Span", whose own first child *)
(* stretches over the width.                                               *)
(***************************************************************************)
StretchChoices ==
    { [title |-> "Brick", type |-> "Known", stretch |-> [width |-> TRUE],
       arguments |-> [ref |-> "spanArgs"]],
      [title |-> "Brick", type |-> "Known", stretch |-> [height |-> TRUE]],
      Random("Span"), Known("Brick"), Known("Nowhere") }

StretchChoiceLists ==
    UNION { [1 .. n -> StretchChoices] : n \in 1 .. MaxRepeatChoices }

InitStretch ==
    /\ args \in [children : StretchChoiceLists, direction : directionNames,
                 spacing : { [kind |-> "Number", value |-> n] : n \in 0 .. MaxSpacing },
                 positionOld : CertainBoxes]
    /\ position = args.positionOld
    /\ children = <<>>
    /\ idx = 0
    /\ pc = "loop"
    /\ ret = Undefined
    /\ InstanceIdle

SpecStretch == InitStretch /\ [][NextCertainSteps]_vars

\* node.arguments, with the library's objects as they are in heap.
ArgumentsOf(node, heap) ==
    IF node.arguments = Undefined THEN Undefined
    ELSE IF Has(node.arguments, "own") THEN node.arguments.own
    ELSE heap[node.arguments.ref]

\* The node spans the cursor on the axes its reference stretches over.
Spans(node, choice, cursor) ==
    /\ Truthy(choice.stretch, "width") =>
          /\ node.left = cursor.left
          /\ node.right = cursor.right
          /\ node.width = node.right - node.left
    /\ Truthy(choice.stretch, "height") =>
          /\ node.top = cursor.top
          /\ node.bottom = cursor.bottom
          /\ node.height = node.top - node.bottom

\* The node's arguments hold its own size on the axes its reference
\* stretches over.
HoldsOwnSize(node, choice, heap) ==
    /\ Truthy(choice.stretch, "width") =>
          ArgumentsOf(node, heap).width = Num(node.width)
    /\ Truthy(choice.stretch, "height") =>
          ArgumentsOf(node, heap).height = Num(node.height)

\* The nodes placed by a reference that stretches, each with its reference,
\* among the children numbered in ks and the first children of the "Span"s
\* among them.
StretchNodes(nodes, ks) ==
    { [node |-> nodes[k], choice |-> args.children[k]] :
        k \in { j \in ks : Has(args.children[j], "stretch") } }
    \cup
    { [node |-> nodes[k].contents.children[1],
       choice |-> possibilities["Span"].contents.children[1]] :
        k \in { j \in ks : /\ nodes[j].title = "Span"
                            /\ nodes[j].contents # Undefined } }

\* C19 as claimed: a node placed by a reference that stretches spans the
\* cursor it is placed against, and every such node of the result, the ones
\* placed earlier too, has arguments.width (arguments.height) equal to its
\* own width (height).
C19_StretchedNodesHoldOwnSize ==
    [][ (pc = "loop" /\ Len(children') = Len(children) + 1) =>
            /\ \A p \in StretchNodes(children', {Len(children')}) :
                   Spans(p.node, p.choice, position)
            /\ \A p \in StretchNodes(children', 1 .. Len(children')) :
                   HoldsOwnSize(p.node, p.choice, argumentObjects') ]_vars

\* The part of C19 about the node being placed: it spans its cursor and, as
\* it is placed, its arguments hold its own size.
C19_StretchedNodeSpansCursor ==
    [][ (pc = "loop" /\ Len(children') = Len(children) + 1) =>
            \A p \in StretchNodes(children', {Len(children')}) :
                /\ Spans(p.node, p.choice, position)
                /\ HoldsOwnSize(p.node, p.choice, argumentObjects') ]_vars

(***************************************************************************)
(* generateChildrenMultiple, one child reference at a time, on the same    *)
(* lists, spacings and boxes, with every direction and with none.          *)
(***************************************************************************)
InitMultipleSteps ==
    /\ args \in [children : StepChoiceLists,
                 direction : directionNames \cup {NoDirection},
                 spacing : { [kind |-> "Number", value |-> n] : n \in 0 .. MaxSpacing },
                 positionOld : CertainBoxes]
    /\ position = args.positionOld
    /\ children = <<>>
    /\ idx = 0
    /\ pc = "loop"
    /\ ret = Undefined
    /\ InstanceIdle

MultipleBody ==
    generateChildrenMultipleBody(args, position, args.direction, args.spacing,
        idx + 1, [rs |-> <<0>>, heap |-> argumentObjects])

\* The next reference is parsed against a copy of the cursor: its node joins
\* the output and the cursor moves.
MultiplePlace ==
    /\ pc = "loop"
    /\ idx < Len(args.children)
    /\ \E body \in {MultipleBody} :
          /\ body.status = "ok"
          /\ position' = body.position
          /\ children' = Append(children, body.child)
          /\ argumentObjects' = body.w.heap
    /\ idx' = idx + 1
    /\ UNCHANGED <<args, ret, pc, generatedCommands, delivered, lastOp, result>>

\* The next reference raises.
MultipleRaise ==
    /\ pc = "loop"
    /\ idx < Len(args.children)
    /\ \E body \in {MultipleBody} :
          /\ body.status # "ok"
          /\ argumentObjects' = body.w.heap
    /\ pc' = "raised"
    /\ UNCHANGED <<args, ret, position, children, idx, generatedCommands,
                   delivered, lastOp, result>>

\* Every reference has been mapped: return the nodes.
MultipleReturn ==
    /\ pc = "loop"
    /\ idx = Len(args.children)
    /\ pc' = "done"
    /\ ret' = ChildArray(children)
    /\ UNCHANGED <<args, position, children, idx, instanceVars>>

NextMultipleSteps == MultiplePlace \/ MultipleRaise \/ MultipleReturn

SpecMultipleSteps == InitMultipleSteps /\ [][NextMultipleSteps]_vars

\* A box moved by n along a direction, all four edges alike; by nothing when
\* there is no direction.
Translated(box, direction, n) ==
    CASE direction = "top" -> [box EXCEPT !.top = @ + n, !.bottom = @ + n]
      [] direction = "right" -> [box EXCEPT !.left = @ + n, !.right = @ + n]
      [] direction = "bottom" -> [box EXCEPT !.top = @ - n, !.bottom = @ - n]
      [] direction = "left" -> [box EXCEPT !.left = @ - n, !.right = @ - n]
      [] OTHER -> box

\* C15: in Multiple mode the k-th node (from 0) is the k-th reference parsed
\* against the initial box translated by k * s along the direction (against
\* the initial box itself when there is no direction); the shared cursor
\* changes by that translation only and keeps its width and height; the
\* result has one node per reference, in list order.
C15_MultipleTranslatesCursor ==
    [][ /\ (pc = "loop" /\ Len(children') = Len(children) + 1) =>
            /\ position = Translated(args.positionOld, args.direction,
                              idx * args.spacing.value)
            /\ children'[idx + 1] =
                  parseChoice(args.children[idx + 1],
                      Translated(args.positionOld, args.direction,
                          idx * args.spacing.value),
                      args.direction,
                      [rs |-> <<0>>, heap |-> argumentObjects]).node
            /\ children'[idx + 1].title = args.children[idx + 1].title
            /\ position' = Translated(position, args.direction, args.spacing.value)
            /\ position'.right - position'.left
                  = args.positionOld.right - args.positionOld.left
            /\ position'.top - position'.bottom
                  = args.positionOld.top - args.positionOld.bottom
        /\ (pc = "loop" /\ pc' = "done") =>
            /\ Len(ret'.list) = Len(args.children)
            /\ \A k \in 1 .. Len(ret'.list) :
                  ret'.list[k].title = args.children[k].title ]_vars

\* C15 witness: two references placed rightwards with spacing 2 from the box
\* [0, 3]: the second node starts at 2 and the cursor has moved to [4, 7].
C15_Witness ==
    /\ pc = "done"
    /\ args.direction = "right"
    /\ args.spacing.value = 2
    /\ args.positionOld.left = 0
    /\ args.positionOld.right = 3
    /\ Len(ret.list) = 2
    /\ ret.list[1].left = 0
    /\ ret.list[2].left = 2
    /\ position.left = 4
    /\ position.right = 7

=============================================================================
